---- MODULE Spec2Model ----
(***************************************************************************)
(* Model of the plugin server's lifecycle orchestration                    *)
(* (startPluginsServer): capability-driven startup, the closeJobs          *)
(* shutdown routine, and the process-level signal and fault handlers.      *)
(*                                                                         *)
(* JavaScript runs each handler to completion until it awaits.  The main   *)
(* startup function is a program counter pc = <<block, step>>; the steps   *)
(* in AwaitSteps are the points where it is suspended on a promise, and    *)
(* only there may other handlers (signals, faults, the continuation of a   *)
(* closeJobs run) be scheduled.                                            *)
(***************************************************************************)
EXTENDS Integers, Sequences, FiniteSets, TLC

\* ------------------------------------------------------------------ bounds
\* External events (signals, faults, join settlements) delivered in one run.
MaxEvents == 1

\* Messages delivered on the bus channels in one run.
MaxMessages == 3

\* Records in the partition the Consumer Group Manager reads.
LogSize == 3

\* Records fetched in one batch, at most.
MaxBatch == 2

\* Times the consumer's process is killed and restarted.
MaxRestarts == 1

\* --------------------------------------------------------------- constants
Capabilities ==
    { "processPluginJobs", "pluginScheduledTasks", "ingestion", "ingestionOverflow",
      "processAsyncHandlers", "processAsyncOnEventHandlers",
      "processAsyncWebhooksHandlers", "sessionRecordingIngestion",
      "sessionRecordingBlobIngestion", "http" }

\* Mutant: the overflow block comes before the ingestion block.
BlocksOverflowFirst ==
    << "jobs", "ingestionOverflow", "ingestion", "processAsyncHandlers",
       "processAsyncOnEventHandlers", "processAsyncWebhooksHandlers", "pubSub",
       "sessionRecordingIngestion", "sessionRecordingBlobIngestion", "finish" >>

\* The capability blocks of the try body, in source order.
Blocks ==
    << "jobs", "ingestion", "ingestionOverflow", "processAsyncHandlers",
       "processAsyncOnEventHandlers", "processAsyncWebhooksHandlers", "pubSub",
       "sessionRecordingIngestion", "sessionRecordingBlobIngestion", "finish" >>

\* The blocks that share the pattern: ensure hub, ensure piscina, start consumer.
HubBlocks ==
    { "jobs", "ingestion", "ingestionOverflow", "processAsyncHandlers",
      "processAsyncOnEventHandlers", "processAsyncWebhooksHandlers" }

Signals == { "SIGINT", "SIGTERM", "SIGHUP" }

\* The handles closeJobs passes to Promise.allSettled, in source order.
StopHandles ==
    << "pubSub", "graphileWorker", "analyticsEventsIngestionConsumer",
       "analyticsEventsIngestionOverflowConsumer", "onEventHandlerConsumer",
       "webhooksHandlerConsumer", "bufferConsumer", "jobsConsumer",
       "stopSessionRecordingEventsConsumer", "stopSessionRecordingBlobConsumer",
       "schedulerTasksConsumer" >>

Range(s) == { s[i] : i \in DOMAIN s }

\* Steps at which startPluginsServer is suspended on a promise.
AwaitSteps ==
    { "createHub", "connectProducer", "makePiscina", "startGraphileWorker",
      "startScheduledTasksConsumer", "startJobsConsumer", "startConsumer",
      "pubSubStart", "ingesterStart", "closeJobs", "returned", "rejected" }

VARIABLES
    caps,             \* capabilities: the enabled capability flags
    pc,               \* position of startPluginsServer: <<block, step>>
    hub,              \* let hub: 0 = undefined, else the id of the Hub
    closeHub,         \* let closeHub: 0 = undefined, else the id of the Hub it closes
    piscina,          \* let piscina: 0 = undefined, else the id of the pool
    defined,          \* the other let-handles that hold a value
    serverInstance,   \* let serverInstance is defined
    healthChecks,     \* service names registered in healthChecks
    httpHealthChecks, \* registry entries present when the HTTP server was created
    scheduledJobs,    \* node-schedule jobs currently scheduled
    shuttingDown,     \* let shuttingDown
    runs,             \* the invocations of closeJobs, in call order: [caller, pc, log]
    stopped,          \* handles whose stop/close routine has been invoked
    stoppedAgain,     \* those the latest closeJobs step invoked although already invoked
    stopRejected,     \* the stops that rejected, if the latest step was an allSettled
    exited,           \* process.exit has been called
    exitCode,         \* its argument
    createHubCalls,   \* number of createHub calls
    makePiscinaCalls, \* number of makePiscina calls
    started,          \* start calls that resolved: [fn, hub, piscina]
    thrown,           \* the error caught by the startup catch block, or "none"
    rejections,       \* what the unhandledRejection handler did with each error
    joins,            \* join promises with closeJobs attached as catch handler
    settled,          \* the joins that have settled, each with its outcome
    lastSignal,       \* the last termination signal delivered, or "none"
    faults,           \* number of uncaughtException events delivered
    events,           \* number of external events delivered so far
    pools,            \* relational-store and cache pools created: [kind, owner]
    closedPools,      \* those that have been closed (ended, or drained and cleared)
    connectProducerCalls, \* number of graphileWorker.connectProducer calls
    messages,         \* number of bus messages delivered so far, by channel
    handlers,         \* the invocations of the bus handlers, in arrival order
    pluginSchedule,   \* hub.pluginSchedule: 0 = as loaded by createHub, else the load
    ended,            \* the consumer streams whose loop has ended, each with its outcome
    cgm,              \* one consumer's batch loop: state, offsets, batch in hand
    instance,         \* the properties the serverInstance object has been given
    returned          \* the properties of the object startPluginsServer returned

busVars == << messages, handlers, pluginSchedule >>
streamVars == << ended, cgm >>
instanceVars == << instance, returned >>
startupVars == << caps, thrown, pc, hub, closeHub, piscina, defined, serverInstance, healthChecks,
                  httpHealthChecks, createHubCalls, makePiscinaCalls, started, joins,
                  pools, connectProducerCalls, busVars, streamVars, instanceVars >>
shutdownVars == << scheduledJobs, shuttingDown, runs, stopped, stoppedAgain,
                   stopRejected, exited, exitCode, rejections, closedPools >>
envVars == << settled, lastSignal, faults, events >>
vars == << caps, pc, hub, closeHub, piscina, defined, serverInstance, healthChecks,
           httpHealthChecks, scheduledJobs, shuttingDown, runs, stopped, stoppedAgain,
           stopRejected, exited, exitCode,
           createHubCalls, makePiscinaCalls, started, thrown, rejections,
           joins, settled, lastSignal, faults, events,
           pools, closedPools, connectProducerCalls, busVars, streamVars, instanceVars >>

\* -------------------------------------------------- unhandledRejection (163-188)
ProtocolCodes == { 3, 22, 25, 27, 41 }

\* Errors delivered to the handler: KafkaJSProtocolError with a code, or another Error.
Errors ==
    { [protocol |-> TRUE, code |-> c] : c \in ProtocolCodes }
        \cup { [protocol |-> FALSE, code |-> 0] }

\* The rejection of an async handler whose awaited closeJobs rejected.
CloseJobsError == [protocol |-> FALSE, code |-> 0]

Digit == << "0", "1", "2", "3", "4", "5", "6", "7", "8", "9" >>

\* ToPropertyKey of a non-negative integer: its decimal string.
RECURSIVE ToPropertyKey(_)
ToPropertyKey(n) ==
    IF n < 10 THEN Digit[n + 1] ELSE ToPropertyKey(n \div 10) \o Digit[(n % 10) + 1]

\* new Set([22, 25, 27]): the elements live in the internal [[SetData]] slot; the
\* property keys of the object are those inherited from Set.prototype and
\* Object.prototype.
kafkaJSIgnorableCodes ==
    [ SetData |-> { 22, 25, 27 },
      keys |-> { "constructor", "has", "add", "delete", "clear", "entries", "forEach",
                 "keys", "values", "size", "hasOwnProperty", "isPrototypeOf",
                 "propertyIsEnumerable", "toLocaleString", "toString", "valueOf" } ]

\* JavaScript `key in obj`: obj or its prototype chain has the property key.
InOperator(key, obj) == ToPropertyKey(key) \in obj.keys

\* The handler: count protocol errors, return early on ignorable ones, else Sentry.
OnUnhandledRejection(error) ==
    LET ignored == error.protocol /\ InOperator(error.code, kafkaJSIgnorableCodes)
    IN  [ error |-> error, counted |-> error.protocol, captured |-> ~ignored ]

\* ------------------------------------------------- pools (65, 398-399, 420-437)
\* The relational-store pool and the cache pool of the Hub (hub.postgres,
\* hub.db.redisPool): createHub initializes them and closeHub releases them.
HubPools ==
    { [ kind |-> "postgres", owner |-> "hub" ], [ kind |-> "redis", owner |-> "hub" ] }

\* hub?.postgres ?? createPostgresPool(...), hub?.db.redisPool ?? createRedisPool(...):
\* block b creates pools of its own only when there is no Hub.
OwnPools(b, kinds) ==
    IF hub # 0 THEN {} ELSE { [ kind |-> k, owner |-> b ] : k \in kinds }

\* stopSessionRecordingBlobConsumer (432-440): if (!hub?.db.redisPool) the pool
\* the block created is drained and cleared.
BlobStopDrains ==
    IF hub # 0 THEN {} ELSE { p \in pools : p.kind = "redis" }

\* ------------------------------------------------------------ closeJobs (112-150)
\* Mutant: the stops are requested before the HTTP server is closed.
CloseJobsSyncStopsFirst ==
    << "clearInterval", "cancelAllScheduledJobs", "stopEventLoopMetrics", "stop",
       "httpServer.close" >>

\* The statements of the synchronous head of closeJobs, in source order.
CloseJobsSync ==
    << "clearInterval", "httpServer.close", "cancelAllScheduledJobs",
       "stopEventLoopMetrics", "stop" >>

\* The handles whose stop routine the synchronous head invokes: those that are set.
StopsInvoked ==
    defined \cap (Range(StopHandles) \cup { "httpServer", "stopEventLoopMetrics" })

\* A closeJobs run r together with the stop routines it has just invoked.
Step(r, invoked) == [ run |-> r, invoked |-> invoked, rejected |-> {}, closed |-> {} ]

\* await closeHub?.(): closeHub is called, and awaited, only when it is set.
EnterCloseHub(r, invoked) ==
    IF closeHub # 0
    THEN Step([r EXCEPT !.pc = "closeHub", !.log = Append(@, "closeHub")],
              invoked \cup { "closeHub" })
    ELSE Step([r EXCEPT !.pc = "done"], invoked)

\* Mutant: stopPiscina issues the teardown and the flush broadcasts together.
EnterStopPiscinaBoth(r, invoked) ==
    IF piscina # 0
    THEN Step([r EXCEPT !.pc = "flushKafkaMessages",
                        !.log = @ \o << "teardownPlugins", "flushKafkaMessages" >>],
              invoked \cup { "stopPiscina" })
    ELSE EnterCloseHub(r, invoked)

\* if (piscina) await stopPiscina(piscina): the teardown broadcast is issued.
EnterStopPiscina(r, invoked) ==
    IF piscina # 0
    THEN Step([r EXCEPT !.pc = "teardownPlugins", !.log = Append(@, "teardownPlugins")],
              invoked \cup { "stopPiscina" })
    ELSE EnterCloseHub(r, invoked)

\* await Promise.allSettled([...]): suspended while a requested stop is pending.
EnterAllSettled(r, invoked) ==
    IF invoked \cap Range(StopHandles) # {}
    THEN Step([r EXCEPT !.pc = "allSettled"], invoked)
    ELSE EnterStopPiscina([r EXCEPT !.log = Append(@, "allSettled")], invoked)

\* The callers that call process.exit after `await closeJobs()`, and with what.
Exits(caller) == caller \in { "beforeExit", "uncaughtException", "catch" }
ExitCodeOf(caller) == IF caller = "beforeExit" THEN 0 ELSE 1

\* Mutant: closeJobs() is not awaited.
ResumesAtOnce(r) == TRUE

\* `await closeJobs()`: the caller resumes when the run has completed.
Resumes(r) == r.pc = "done"

\* What a step of a closeJobs run leaves behind, and what follows in its caller
\* once the run has completed or rejected.
Continuation(s) ==
    /\ stopped' = stopped \cup s.invoked
    /\ stoppedAgain' = s.invoked \cap stopped
    /\ stopRejected' = s.rejected
    /\ closedPools' = closedPools \cup s.closed
    /\ IF Resumes(s.run) /\ Exits(s.run.caller)
       THEN exited' = TRUE /\ exitCode' = ExitCodeOf(s.run.caller)
       ELSE UNCHANGED << exited, exitCode >>
    /\ IF s.run.pc = "rejected" /\ s.run.caller # "catch"
       THEN rejections' = rejections \cup { OnUnhandledRejection(CloseJobsError) }
       ELSE UNCHANGED rejections

\* A call of closeJobs by `caller`, up to its first suspension.
CloseJobs(caller) ==
    LET s == EnterAllSettled([ caller |-> caller, pc |-> "sync", log |-> CloseJobsSync ],
                             StopsInvoked)
    IN  /\ shuttingDown' = TRUE
        /\ scheduledJobs' = {}
        /\ runs' = Append(runs, s.run)
        /\ Continuation(s)

Yielded == pc[2] \in AwaitSteps

\* A closeJobs run moves from its suspension to the next one.
RunStep(i, s) ==
    /\ runs' = [runs EXCEPT ![i] = s.run]
    /\ Continuation(s)
    /\ pc' = IF s.run.pc = "rejected" /\ s.run.caller = "catch"
             THEN << "catch", "rejected" >>
             ELSE pc
    /\ UNCHANGED << caps, instanceVars, busVars, streamVars, pools, connectProducerCalls,
                    thrown, hub, closeHub, piscina, defined, serverInstance,
                    healthChecks, httpHealthChecks, createHubCalls, makePiscinaCalls,
                    started, joins, scheduledJobs, shuttingDown, envVars >>

Rejected(r) == Step([r EXCEPT !.pc = "rejected"], {})

\* Mutant: Promise.all, which rejects when one of its elements rejects.
PromiseAll(rejected) == IF rejected = {} THEN "fulfilled" ELSE "rejected"

\* Promise.allSettled fulfils once every element has settled, whatever the outcomes.
PromiseAllSettled(rejected) == "fulfilled"

\* The requested stops have settled, those in `rejected` by rejecting.
AllSettled(i, rejected) ==
    /\ ~exited /\ Yielded
    /\ runs[i].pc = "allSettled"
    /\ LET s == IF PromiseAllSettled(rejected) = "rejected"
                THEN Rejected(runs[i])
                ELSE EnterStopPiscina([runs[i] EXCEPT !.log = Append(@, "allSettled")], {})
           closed == IF "stopSessionRecordingBlobConsumer" \in defined \ rejected
                     THEN BlobStopDrains
                     ELSE {}
       IN  RunStep(i, [s EXCEPT !.rejected = rejected, !.closed = closed])

\* stopPiscina (497-502): await Promise.race([teardownPlugins, delay(5000)]), then
\* the flush broadcast is issued
TeardownSettled(i, outcome) ==
    /\ ~exited /\ Yielded
    /\ runs[i].pc = "teardownPlugins"
    /\ RunStep(i, IF outcome = "rejected"
                  THEN Rejected(runs[i])
                  ELSE Step([runs[i] EXCEPT !.pc = "flushKafkaMessages",
                                            !.log = @ \o << "teardownSettled",
                                                            "flushKafkaMessages" >>], {}))

\* stopPiscina (501): delay(2000) resolves while the flush broadcast is pending;
\* Promise.all goes on waiting for the broadcast.
FlushDelayElapsed(i) ==
    /\ ~exited /\ Yielded
    /\ runs[i].pc = "flushKafkaMessages"
    /\ RunStep(i, Step([runs[i] EXCEPT !.pc = "flushPending"], {}))

\* stopPiscina (497-502): await Promise.all([flushKafkaMessages, delay(2000)])
FlushSettled(i, outcome) ==
    /\ ~exited /\ Yielded
    /\ runs[i].pc \in { "flushKafkaMessages", "flushPending" }
    /\ RunStep(i, IF outcome = "rejected"
                  THEN Rejected(runs[i])
                  ELSE EnterCloseHub([runs[i] EXCEPT !.log = Append(@, "flushSettled")], {}))

CloseHubSettled(i, outcome) ==
    /\ ~exited /\ Yielded
    /\ runs[i].pc = "closeHub"
    /\ RunStep(i, IF outcome = "rejected"
                  THEN Rejected(runs[i])
                  ELSE [ Step([runs[i] EXCEPT !.pc = "done",
                                              !.log = Append(@, "closeHubSettled")], {})
                           EXCEPT !.closed = HubPools ])

\* ---------------------------------------------------- process handlers (152-208)
\* for (const signal of [...]) process.on(signal, () => process.emit('beforeExit', 0))
SignalListener(sig) ==
    IF sig \in { "SIGINT", "SIGTERM", "SIGHUP" } THEN "beforeExit" ELSE "default"

\* Signal numbers: a signal without a listener ends the process with 128 + number.
SignalNumber(sig) == CASE sig = "SIGHUP" -> 1 [] sig = "SIGINT" -> 2 [] sig = "SIGTERM" -> 15

\* A termination signal: its listener emits beforeExit, whose handler is
\* `await closeJobs(); process.exit(0)`.
Signal(sig) ==
    /\ ~exited /\ Yielded
    /\ events < MaxEvents
    /\ events' = events + 1
    /\ lastSignal' = sig
    /\ IF SignalListener(sig) = "beforeExit"
       THEN CloseJobs("beforeExit")
       ELSE /\ exited' = TRUE /\ exitCode' = 128 + SignalNumber(sig)
            /\ UNCHANGED << scheduledJobs, shuttingDown, runs, stopped, stoppedAgain,
                            stopRejected, rejections, closedPools >>
    /\ UNCHANGED << startupVars, settled, faults >>

\* Mutant: the handler does not test shuttingDown.
UncaughtExceptionUnguarded ==
    /\ ~exited /\ Yielded
    /\ events < MaxEvents
    /\ events' = events + 1
    /\ faults' = faults + 1
    /\ CloseJobs("uncaughtException")
    /\ UNCHANGED << startupVars, settled, lastSignal >>

\* process.on('uncaughtException'): guarded by shuttingDown
UncaughtException ==
    /\ ~exited /\ Yielded
    /\ events < MaxEvents
    /\ events' = events + 1
    /\ faults' = faults + 1
    /\ IF shuttingDown
       THEN UNCHANGED shutdownVars
       ELSE CloseJobs("uncaughtException")
    /\ UNCHANGED << startupVars, settled, lastSignal >>

\* process.on('unhandledRejection')
UnhandledRejection(error) ==
    /\ ~exited /\ Yielded
    /\ events < MaxEvents
    /\ events' = events + 1
    /\ rejections' = rejections \cup { OnUnhandledRejection(error) }
    /\ UNCHANGED << startupVars, settled, lastSignal, faults, scheduledJobs, shuttingDown,
                    runs, stopped, stoppedAgain, stopRejected, exited, exitCode,
                    closedPools >>

\* join().catch(closeJobs) (468-473): closeJobs is the rejection handler only
JoinSettled(j, outcome) ==
    /\ ~exited /\ Yielded
    /\ j \in joins
    /\ events < MaxEvents
    /\ events' = events + 1
    /\ joins' = joins \ { j }
    /\ settled' = settled \cup { << j, outcome >> }
    /\ IF outcome = "rejected"
       THEN CloseJobs("join")
       ELSE UNCHANGED shutdownVars
    /\ UNCHANGED << caps, instanceVars, busVars, streamVars, pools, connectProducerCalls,
                    thrown, pc, hub, closeHub, piscina, defined, serverInstance,
                    healthChecks, httpHealthChecks, createHubCalls, makePiscinaCalls,
                    started, lastSignal, faults >>

\* The handles of the consumers other than the session-recording ones (86-101).
ConsumerHandles ==
    { "analyticsEventsIngestionConsumer", "analyticsEventsIngestionOverflowConsumer",
      "onEventHandlerConsumer", "webhooksHandlerConsumer", "jobsConsumer",
      "schedulerTasksConsumer" }

\* Mutant: closeJobs is attached to the end of every consumer's loop.
StreamsJoinedAll == Range(StopHandles)

\* The consumers whose join promise startPluginsServer attaches closeJobs to
\* (468-473): the two session-recording consumers.
StreamsJoined ==
    { "stopSessionRecordingEventsConsumer", "stopSessionRecordingBlobConsumer" }

\* The loop of consumer c ends, by terminating or with a processing error. The
\* consumers of ConsumerHandles are never joined: nothing in this function runs.
StreamEnded(c, outcome) ==
    /\ ~exited /\ Yielded
    /\ c \in defined \cap ConsumerHandles
    /\ << c, "resolved" >> \notin ended /\ << c, "rejected" >> \notin ended
    /\ events < MaxEvents
    /\ events' = events + 1
    /\ ended' = ended \cup { << c, outcome >> }
    /\ IF c \in StreamsJoined /\ outcome = "rejected"
       THEN CloseJobs("join")
       ELSE UNCHANGED shutdownVars
    /\ UNCHANGED << caps, instanceVars, thrown, pc, hub, closeHub, piscina, defined, serverInstance,
                    healthChecks, httpHealthChecks, createHubCalls, makePiscinaCalls,
                    started, joins, pools, connectProducerCalls, busVars, cgm,
                    settled, lastSignal, faults >>

\* The caller of startPluginsServer calls stop() of the object it was returned:
\* stop is closeJobs (388, 475), and no process.exit follows it.
Stop ==
    /\ ~exited /\ Yielded
    /\ "stop" \in returned
    /\ events < MaxEvents
    /\ events' = events + 1
    /\ CloseJobs("stop")
    /\ UNCHANGED << startupVars, settled, lastSignal, faults >>

\* ------------------------------------------------ startPluginsServer (219-483)
\* Mutant: the pubsub block runs whether or not there is a Hub.
EnabledPubSubAlways(b) ==
    CASE b = "jobs" -> "processPluginJobs" \in caps \/ "pluginScheduledTasks" \in caps
      [] b = "pubSub" -> TRUE
      [] b = "finish" -> TRUE
      [] OTHER -> b \in caps

\* The `if (...)` test that opens block b.
Enabled(b) ==
    CASE b = "jobs" -> "processPluginJobs" \in caps \/ "pluginScheduledTasks" \in caps
      [] b = "pubSub" -> hub # 0 /\ serverInstance
      [] b = "finish" -> TRUE
      [] OTHER -> b \in caps

\* The first block from Blocks[i] on whose test passes.
RECURSIVE FirstEnabled(_)
FirstEnabled(i) == IF Enabled(Blocks[i]) THEN Blocks[i] ELSE FirstEnabled(i + 1)

\* Where control goes when block b is done: the next block whose test passes.
NextBlock(b) == FirstEnabled((CHOOSE i \in DOMAIN Blocks : Blocks[i] = b) + 1)

\* The guards that throw at the head of the onEvent and webhooks blocks.
NotAllowedTogether(b) ==
    /\ b \in { "processAsyncOnEventHandlers", "processAsyncWebhooksHandlers" }
    /\ "processAsyncHandlers" \in caps

\* Mutant: every block creates a hub of its own.
NeedsCreateHubAlways == TRUE

\* hub ? [hub, closeHub] : await createHub(...): createHub is called when hub is unset.
NeedsCreateHub == hub = 0

\* Mutant: no block makes the pool.
NeedsMakePiscinaNever == FALSE

\* Mutant: every block makes a pool of its own.
NeedsMakePiscinaAlways == TRUE

\* piscina ?? (await makePiscina(...)): makePiscina is called when piscina is unset.
NeedsMakePiscina == piscina = 0

\* The start function block b awaits.
StartFn(b) ==
    CASE b = "ingestion" -> "startAnalyticsEventsIngestionConsumer"
      [] b = "ingestionOverflow" -> "startAnalyticsEventsIngestionOverflowConsumer"
      [] b = "processAsyncHandlers" -> "startAsyncHandlerConsumer"
      [] b = "processAsyncOnEventHandlers" -> "startAsyncOnEventHandlerConsumer"
      [] b = "processAsyncWebhooksHandlers" -> "startAsyncWebhooksHandlerConsumer"
      [] b = "sessionRecordingIngestion" -> "startSessionRecordingEventsConsumer"

\* The handles block b assigns from the result of its start function.
Assigned(b) ==
    CASE b = "ingestion" -> { "analyticsEventsIngestionConsumer" }
      [] b = "ingestionOverflow" -> { "analyticsEventsIngestionOverflowConsumer" }
      [] b = "processAsyncHandlers" -> { "onEventHandlerConsumer" }
      [] b = "processAsyncOnEventHandlers" -> { "onEventHandlerConsumer" }
      [] b = "processAsyncWebhooksHandlers" -> { "webhooksHandlerConsumer" }
      [] b = "sessionRecordingIngestion" ->
            { "stopSessionRecordingEventsConsumer", "joinSessionRecordingEventsConsumer" }

\* The healthChecks entry block b registers.
HealthName(b) ==
    CASE b = "ingestion" -> { "analytics-ingestion" }
      [] b = "ingestionOverflow" -> { }
      [] b = "processAsyncHandlers" -> { "on-event-ingestion" }
      [] b = "processAsyncOnEventHandlers" -> { "on-event-ingestion" }
      [] b = "processAsyncWebhooksHandlers" -> { "webhooks-ingestion" }
      [] b = "sessionRecordingIngestion" -> { "session-recordings" }

\* A start call that resolved, with the hub and the pool in use at that point.
Started(fn) == [ fn |-> fn, hub |-> hub, piscina |-> piscina ]

\* catch (476-483): capture, await closeJobs(), process.exit(1)
Throw(what) ==
    /\ thrown' = what
    /\ pc' = << "catch", "closeJobs" >>
    /\ CloseJobs("catch")

\* The step that awaits the start call of block b, once the pool exists.
StartStep(b) == IF b = "jobs" THEN "startGraphileWorker" ELSE "startConsumer"

\* piscina = piscina ?? (await makePiscina(serverConfig, hub))
EnsurePiscina(b) ==
    IF NeedsMakePiscina
    THEN makePiscinaCalls' = makePiscinaCalls + 1 /\ pc' = << b, "makePiscina" >>
    ELSE makePiscinaCalls' = makePiscinaCalls /\ pc' = << b, StartStep(b) >>

\* Mutant: the jobs block goes on to the pool and the poller without connectProducer.
WithHubNoMigration(b) ==
    /\ serverInstance' = TRUE
    /\ instance' = IF serverInstance THEN instance ELSE { "hub" }
    /\ defined' = IF b = "jobs" THEN defined \cup { "graphileWorker" } ELSE defined
    /\ EnsurePiscina(b)
    /\ UNCHANGED connectProducerCalls

\* serverInstance = serverInstance ? serverInstance : { hub }, then the block's body up
\* to its next await: connectProducer in the jobs block, else the pool.
WithHub(b) ==
    /\ serverInstance' = TRUE
    /\ instance' = IF serverInstance THEN instance ELSE { "hub" }
    /\ IF b = "jobs"
       THEN /\ defined' = defined \cup { "graphileWorker" }
            /\ connectProducerCalls' = connectProducerCalls + 1
            /\ pc' = << b, "connectProducer" >>
            /\ UNCHANGED makePiscinaCalls
       ELSE /\ EnsurePiscina(b)
            /\ UNCHANGED << defined, connectProducerCalls >>

\* Blocks at 231, 269, 285, 297, 311, 329: exclusion guard, then ensure the hub.
EnterBlock(b) ==
    /\ ~exited
    /\ pc = << b, "enter" >>
    /\ IF NotAllowedTogether(b)
       THEN /\ Throw(b)
            /\ UNCHANGED << createHubCalls, makePiscinaCalls, defined, serverInstance,
                            instance, connectProducerCalls >>
       ELSE IF NeedsCreateHub
       THEN /\ createHubCalls' = createHubCalls + 1
            /\ pc' = << b, "createHub" >>
            /\ UNCHANGED << thrown, shutdownVars, makePiscinaCalls, defined,
                            serverInstance, instance, connectProducerCalls >>
       ELSE /\ WithHub(b)
            /\ UNCHANGED << thrown, shutdownVars, createHubCalls >>
    /\ UNCHANGED << caps, returned, busVars, streamVars, pools,
                    hub, closeHub, piscina, healthChecks, httpHealthChecks,
                    started, joins, envVars >>

CreateHubSettled(b) ==
    /\ ~exited
    /\ pc = << b, "createHub" >>
    /\ \/ /\ hub' = createHubCalls
          /\ closeHub' = createHubCalls
          /\ pools' = pools \cup HubPools
          /\ WithHub(b)
          /\ UNCHANGED << thrown, shutdownVars >>
       \/ /\ Throw("createHub")
          /\ UNCHANGED << hub, closeHub, makePiscinaCalls, defined, serverInstance,
                          instance, pools, connectProducerCalls >>
    /\ UNCHANGED << caps, returned, busVars, streamVars,
                    piscina, healthChecks, httpHealthChecks, createHubCalls,
                    started, joins, envVars >>

\* await graphileWorker.connectProducer() (243)
ConnectProducerSettled ==
    /\ ~exited
    /\ pc = << "jobs", "connectProducer" >>
    /\ \/ /\ EnsurePiscina("jobs")
          /\ UNCHANGED << thrown, shutdownVars >>
       \/ /\ Throw("connectProducer")
          /\ UNCHANGED makePiscinaCalls
    /\ UNCHANGED << caps, instanceVars, busVars, streamVars, pools, connectProducerCalls,
                    hub, closeHub, piscina, defined, serverInstance, healthChecks,
                    httpHealthChecks, createHubCalls, started, joins, envVars >>

MakePiscinaSettled(b) ==
    /\ ~exited
    /\ pc = << b, "makePiscina" >>
    /\ \/ /\ piscina' = makePiscinaCalls
          /\ pc' = << b, StartStep(b) >>
          /\ UNCHANGED << thrown, shutdownVars >>
       \/ /\ Throw("makePiscina")
          /\ UNCHANGED piscina
    /\ UNCHANGED << caps, instanceVars, busVars, streamVars, pools, connectProducerCalls,
                    hub, closeHub, defined, serverInstance, healthChecks,
                    httpHealthChecks, createHubCalls, makePiscinaCalls, started, joins,
                    envVars >>

\* await startGraphileWorker(hub, graphileWorker, piscina) (246)
StartGraphileWorkerSettled ==
    /\ ~exited
    /\ pc = << "jobs", "startGraphileWorker" >>
    /\ \/ /\ started' = started \cup { Started("startGraphileWorker") }
          /\ pc' = IF "pluginScheduledTasks" \in caps
                   THEN << "jobs", "startScheduledTasksConsumer" >>
                   ELSE << "jobs", "startJobsConsumer" >>
          /\ UNCHANGED << thrown, shutdownVars >>
       \/ /\ Throw("startGraphileWorker")
          /\ UNCHANGED started
    /\ UNCHANGED << caps, instanceVars, busVars, streamVars, pools, connectProducerCalls,
                    hub, closeHub, piscina, defined, serverInstance, healthChecks,
                    httpHealthChecks, createHubCalls, makePiscinaCalls, joins, envVars >>

\* schedulerTasksConsumer = await startScheduledTasksConsumer(...) (249-257)
StartScheduledTasksConsumerSettled ==
    /\ ~exited
    /\ pc = << "jobs", "startScheduledTasksConsumer" >>
    /\ \/ /\ defined' = defined \cup { "schedulerTasksConsumer" }
          /\ started' = started \cup { Started("startScheduledTasksConsumer") }
          /\ pc' = IF "processPluginJobs" \in caps
                   THEN << "jobs", "startJobsConsumer" >>
                   ELSE << NextBlock("jobs"), "enter" >>
          /\ UNCHANGED << thrown, shutdownVars >>
       \/ /\ Throw("startScheduledTasksConsumer")
          /\ UNCHANGED << defined, started >>
    /\ UNCHANGED << caps, instanceVars, busVars, streamVars, pools, connectProducerCalls,
                    hub, closeHub, piscina, serverInstance, healthChecks,
                    httpHealthChecks, createHubCalls, makePiscinaCalls, joins, envVars >>

\* jobsConsumer = await startJobsConsumer(...) (259-266)
StartJobsConsumerSettled ==
    /\ ~exited
    /\ pc = << "jobs", "startJobsConsumer" >>
    /\ \/ /\ defined' = defined \cup { "jobsConsumer" }
          /\ started' = started \cup { Started("startJobsConsumer") }
          /\ pc' = << NextBlock("jobs"), "enter" >>
          /\ UNCHANGED << thrown, shutdownVars >>
       \/ /\ Throw("startJobsConsumer")
          /\ UNCHANGED << defined, started >>
    /\ UNCHANGED << caps, instanceVars, busVars, streamVars, pools, connectProducerCalls,
                    hub, closeHub, piscina, serverInstance, healthChecks,
                    httpHealthChecks, createHubCalls, makePiscinaCalls, joins, envVars >>

\* The awaited start call of a consumer block: assign the handle, register health.
StartConsumerSettled(b) ==
    /\ ~exited
    /\ pc = << b, "startConsumer" >>
    /\ \/ /\ defined' = defined \cup Assigned(b)
          /\ healthChecks' = healthChecks \cup HealthName(b)
          /\ started' = started \cup { Started(StartFn(b)) }
          /\ pc' = << NextBlock(b), "enter" >>
          /\ UNCHANGED << thrown, shutdownVars >>
       \/ /\ Throw(StartFn(b))
          /\ UNCHANGED << defined, healthChecks, started >>
    /\ UNCHANGED << caps, instanceVars, busVars, streamVars, pools, connectProducerCalls,
                    hub, closeHub, piscina, serverInstance, httpHealthChecks,
                    createHubCalls, makePiscinaCalls, joins, envVars >>

\* if (hub && serverInstance) { pubSub = new PubSub(...); await pubSub.start() (349-373)
EnterPubSub ==
    /\ ~exited
    /\ pc = << "pubSub", "enter" >>
    /\ defined' = defined \cup { "pubSub" }
    /\ pc' = << "pubSub", "pubSubStart" >>
    /\ UNCHANGED << caps, instanceVars, busVars, streamVars, pools, connectProducerCalls,
                    thrown, hub, closeHub, piscina, serverInstance, healthChecks,
                    httpHealthChecks, createHubCalls, makePiscinaCalls, started, joins,
                    shutdownVars, envVars >>

\* After pubSub.start(): the schedules and, when hub.statsd is set, the metrics (375-395)
PubSubStartSettled(statsd) ==
    /\ ~exited
    /\ pc = << "pubSub", "pubSubStart" >>
    /\ \/ /\ scheduledJobs' = scheduledJobs \cup { "reloadAllActions", "preflight" }
          /\ defined' = IF statsd THEN defined \cup { "stopEventLoopMetrics" } ELSE defined
          /\ instance' = instance \cup { "piscina", "queue", "stop" }
          /\ pc' = << NextBlock("pubSub"), "enter" >>
          /\ UNCHANGED << thrown, shuttingDown, runs, stopped, stoppedAgain,
                          stopRejected, exited, exitCode, rejections, closedPools >>
       \/ /\ statsd
          /\ Throw("pubSub.start")
          /\ UNCHANGED << defined, instance >>
    /\ UNCHANGED << caps, returned, busVars, streamVars, pools, connectProducerCalls,
                    hub, closeHub, piscina, serverInstance, healthChecks,
                    httpHealthChecks, createHubCalls, makePiscinaCalls, started, joins,
                    envVars >>

\* if (capabilities.sessionRecordingIngestion) (397-416): the pool, then the start call
EnterSessionRecording ==
    /\ ~exited
    /\ pc = << "sessionRecordingIngestion", "enter" >>
    /\ pools' = pools \cup OwnPools("sessionRecordingIngestion", { "postgres" })
    /\ pc' = << "sessionRecordingIngestion", "startConsumer" >>
    /\ UNCHANGED << caps, instanceVars, busVars, streamVars, connectProducerCalls,
                    thrown, hub, closeHub, piscina, defined, serverInstance,
                    healthChecks, httpHealthChecks, createHubCalls, makePiscinaCalls,
                    started, joins, shutdownVars, envVars >>

\* if (capabilities.sessionRecordingBlobIngestion) (418-429): the pools, the s3
\* check, ingester.start()
EnterSessionRecordingBlob(s3) ==
    /\ ~exited
    /\ pc = << "sessionRecordingBlobIngestion", "enter" >>
    /\ pools' = pools \cup OwnPools("sessionRecordingBlobIngestion", { "postgres", "redis" })
    /\ IF ~s3
       THEN Throw("objectStorage")
       ELSE /\ pc' = << "sessionRecordingBlobIngestion", "ingesterStart" >>
            /\ UNCHANGED << thrown, shutdownVars >>
    /\ UNCHANGED << caps, instanceVars, busVars, streamVars, connectProducerCalls,
                    hub, closeHub, piscina, defined, serverInstance, healthChecks,
                    httpHealthChecks, createHubCalls, makePiscinaCalls, started, joins,
                    envVars >>

\* After ingester.start(): the handles are set only if ingester.batchConsumer is (430-443)
IngesterStartSettled(batchConsumer) ==
    /\ ~exited
    /\ pc = << "sessionRecordingBlobIngestion", "ingesterStart" >>
    /\ \/ /\ started' = started \cup { Started("SessionRecordingBlobIngester.start") }
          /\ defined' = IF batchConsumer
                        THEN defined \cup { "stopSessionRecordingBlobConsumer",
                                            "joinSessionRecordingBlobConsumer" }
                        ELSE defined
          /\ healthChecks' = IF batchConsumer
                             THEN healthChecks \cup { "session-recordings-blob" }
                             ELSE healthChecks
          /\ pc' = << NextBlock("sessionRecordingBlobIngestion"), "enter" >>
          /\ UNCHANGED << thrown, shutdownVars >>
       \/ /\ batchConsumer
          /\ Throw("ingester.start")
          /\ UNCHANGED << started, defined, healthChecks >>
    /\ UNCHANGED << caps, instanceVars, busVars, streamVars, pools, connectProducerCalls,
                    hub, closeHub, piscina, serverInstance, httpHealthChecks,
                    createHubCalls, makePiscinaCalls, joins, envVars >>

\* return serverInstance ?? { stop: closeJobs } (475)
ReturnValue == IF serverInstance THEN instance ELSE { "stop" }

\* Mutant: a health check is registered after the HTTP server has been created.
FinishThenRegister ==
    /\ ~exited
    /\ pc = << "finish", "enter" >>
    /\ defined' = IF "http" \in caps THEN defined \cup { "httpServer" } ELSE defined
    /\ httpHealthChecks' = IF "http" \in caps THEN healthChecks ELSE httpHealthChecks
    /\ healthChecks' = healthChecks \cup { "http" }
    /\ joins' = defined \cap { "joinSessionRecordingEventsConsumer",
                              "joinSessionRecordingBlobConsumer" }
    /\ pc' = << "finish", "returned" >>
    /\ returned' = ReturnValue
    /\ UNCHANGED << caps, instance, busVars, streamVars, pools, connectProducerCalls, thrown, hub,
                    closeHub, piscina, serverInstance, createHubCalls, makePiscinaCalls,
                    started, shutdownVars, envVars >>

\* The synchronous tail (446-475): the HTTP server is created with the registry,
\* closeJobs is attached as the catch handler of each defined join, and the
\* function returns.
Finish ==
    /\ ~exited
    /\ pc = << "finish", "enter" >>
    /\ IF "http" \in caps
       THEN defined' = defined \cup { "httpServer" } /\ httpHealthChecks' = healthChecks
       ELSE UNCHANGED << defined, httpHealthChecks >>
    /\ joins' = defined \cap { "joinSessionRecordingEventsConsumer",
                              "joinSessionRecordingBlobConsumer" }
    /\ pc' = << "finish", "returned" >>
    /\ returned' = ReturnValue
    /\ UNCHANGED << caps, instance, busVars, streamVars, pools, connectProducerCalls,
                    thrown, hub, closeHub, piscina, serverInstance, healthChecks,
                    createHubCalls, makePiscinaCalls, started, shutdownVars, envVars >>

\* ------------------------------------------------------- bus handlers (349-373)
\* The channels external writers publish on.
BusChannels ==
    { "reload-plugins", "reset-available-features-cache", "reload-action", "drop-action" }

\* Mutant: the action channels are subscribed whatever the capabilities.
SubscribedChannelsAll == BusChannels

\* The keys of the handler map passed to new PubSub (350-371).
SubscribedChannels ==
    { "reload-plugins", "reset-available-features-cache" }
        \cup IF "processAsyncHandlers" \in caps \/ "processAsyncWebhooksHandlers" \in caps
             THEN { "reload-action", "drop-action" }
             ELSE {}

\* The task the handler of channel ch broadcasts first.
TaskOf(ch) ==
    CASE ch = "reload-plugins" -> "reloadPlugins"
      [] ch = "reset-available-features-cache" -> "resetAvailableFeaturesCache"
      [] ch = "reload-action" -> "reloadAction"
      [] ch = "drop-action" -> "dropAction"

\* The handlers that pass JSON.parse(message) as the task's args.
ParsesMessage(ch) == ch # "reload-plugins"

\* Mutant: the handler returns without broadcasting.
HandlerStartNoBroadcast(ch, valid) ==
    [ channel |-> ch, pc |-> "done", log |-> << >> ]

\* A handler up to its first await: piscina?.broadcastTask(...) is called when the
\* pool is set, after JSON.parse(message), which throws on a malformed message.
HandlerStart(ch, valid) ==
    IF piscina = 0 THEN [ channel |-> ch, pc |-> "done", log |-> << >> ]
    ELSE IF ParsesMessage(ch) /\ ~valid
    THEN [ channel |-> ch, pc |-> "rejected", log |-> << >> ]
    ELSE [ channel |-> ch, pc |-> TaskOf(ch), log |-> << TaskOf(ch) >> ]

\* pubSub.start() has resolved and pubSub.stop() has not been called.
Listening ==
    /\ "pubSub" \in defined /\ "pubSub" \notin stopped
    /\ pc # << "pubSub", "pubSubStart" >>

\* The number of messages delivered so far.
Delivered ==
    messages["reload-plugins"] + messages["reset-available-features-cache"]
        + messages["reload-action"] + messages["drop-action"]

\* A message on channel ch: the handler registered for ch, if any, is invoked.
Message(ch, valid) ==
    /\ ~exited /\ Yielded
    /\ Listening
    /\ Delivered < MaxMessages /\ Len(handlers) < MaxMessages
    /\ ParsesMessage(ch) \/ valid
    /\ messages' = [messages EXCEPT ![ch] = @ + 1]
    /\ handlers' = IF ch \in SubscribedChannels
                   THEN Append(handlers, HandlerStart(ch, valid))
                   ELSE handlers
    /\ UNCHANGED << caps, instanceVars, thrown, pc, hub, closeHub, piscina, defined, serverInstance,
                    healthChecks, httpHealthChecks, createHubCalls, makePiscinaCalls,
                    started, joins, pools, connectProducerCalls, pluginSchedule,
                    streamVars, shutdownVars, envVars >>

\* Mutant: the schedule is reloaded whatever the capabilities.
ReloadsScheduleAlways == TRUE

\* if (hub?.capabilities.pluginScheduledTasks && piscina) (355)
ReloadsSchedule == hub # 0 /\ "pluginScheduledTasks" \in caps /\ piscina # 0

\* What handler h does when the promise it awaits resolves, up to its next await.
HandlerResume(h) ==
    CASE h.pc = "reloadPlugins" /\ ReloadsSchedule ->
            [h EXCEPT !.pc = "reloadSchedule", !.log = Append(@, "reloadSchedule")]
      [] h.pc = "reloadSchedule" ->
            [h EXCEPT !.pc = "loadPluginSchedule", !.log = Append(@, "loadPluginSchedule")]
      [] h.pc = "loadPluginSchedule" ->
            [h EXCEPT !.pc = "done", !.log = Append(@, "hub.pluginSchedule")]
      [] h.pc = "redisSet.ping" ->
            [h EXCEPT !.pc = "redisSet.version", !.log = Append(@, "redisSet.version")]
      [] OTHER -> [h EXCEPT !.pc = "done"]

\* The promise handler i awaits settles: a broadcast, or the schedule loaded from
\* the pool, which the handler assigns to hub.pluginSchedule.
BroadcastSettled(i, outcome) ==
    /\ ~exited /\ Yielded
    /\ handlers[i].pc \notin { "done", "rejected" }
    /\ handlers' = [handlers EXCEPT ![i] = IF outcome = "rejected"
                                           THEN [@ EXCEPT !.pc = "rejected"]
                                           ELSE HandlerResume(@)]
    /\ pluginSchedule' = IF outcome = "resolved" /\ handlers[i].pc = "loadPluginSchedule"
                         THEN i
                         ELSE pluginSchedule
    /\ UNCHANGED << caps, instanceVars, thrown, pc, hub, closeHub, piscina, defined, serverInstance,
                    healthChecks, httpHealthChecks, createHubCalls, makePiscinaCalls,
                    started, joins, pools, connectProducerCalls, messages,
                    streamVars, shutdownVars, envVars >>

\* The callback of a scheduled job up to its first await: the reload-all-actions
\* broadcast (376-378), issued when the pool is set, or the first redisSet of the
\* preflight ping (486-495).
TimerStart(job) ==
    IF job = "preflight"
    THEN [ channel |-> job, pc |-> "redisSet.ping", log |-> << "redisSet.ping" >> ]
    ELSE IF piscina = 0 THEN [ channel |-> job, pc |-> "done", log |-> << >> ]
    ELSE [ channel |-> job, pc |-> "reloadAllActions", log |-> << "reloadAllActions" >> ]

\* A job scheduled with node-schedule fires: only a job that has not been cancelled.
TimerFired(job) ==
    /\ ~exited /\ Yielded
    /\ job \in scheduledJobs
    /\ Len(handlers) < MaxMessages
    /\ handlers' = Append(handlers, TimerStart(job))
    /\ UNCHANGED << caps, instanceVars, thrown, pc, hub, closeHub, piscina, defined,
                    serverInstance, healthChecks, httpHealthChecks, createHubCalls,
                    makePiscinaCalls, started, joins, pools, connectProducerCalls,
                    messages, pluginSchedule, streamVars, shutdownVars, envVars >>

\* ------------------------------------- Consumer Group Manager (one stream)
\* A manager in state `created`: no batch in hand; the committed offset is the
\* group's, kept by the broker; processed is the set of records whose processing
\* has succeeded so far.
CgmCreated(committed, processed, restarts) ==
    [ state |-> "created", phase |-> "idle", batch |-> {}, committed |-> committed,
      processed |-> processed, stopCalled |-> FALSE, stopReturned |-> FALSE,
      restarts |-> restarts ]

\* What the rest of the program is doing is left alone by the consumer's loop.
CgmStep(next) ==
    /\ cgm' = next
    /\ UNCHANGED << caps, instanceVars, thrown, pc, hub, closeHub, piscina, defined, serverInstance,
                    healthChecks, httpHealthChecks, createHubCalls, makePiscinaCalls,
                    started, joins, pools, connectProducerCalls, busVars, ended,
                    shutdownVars, envVars >>

\* created -> starting -> running
CgmStart ==
    /\ cgm.state = "created"
    /\ CgmStep([cgm EXCEPT !.state = "starting"])

CgmRunning ==
    /\ cgm.state = "starting"
    /\ CgmStep([cgm EXCEPT !.state = "running"])

\* running: fetch a batch, from the committed offset on.
CgmFetch(n) ==
    /\ cgm.state = "running" /\ cgm.phase = "idle"
    /\ cgm.committed < LogSize
    /\ LET hi == IF cgm.committed + n > LogSize THEN LogSize ELSE cgm.committed + n
       IN  CgmStep([cgm EXCEPT !.phase = "fetched", !.batch = (cgm.committed + 1) .. hi])

\* The batch is processed: with success, with a transient protocol error (the loop
\* stays running and fetches again after a backoff), or with another error.
CgmProcess(outcome) ==
    /\ cgm.state \in { "running", "stopping" } /\ cgm.phase = "fetched"
    /\ CgmStep(CASE outcome = "ok" ->
                      [cgm EXCEPT !.phase = "processed", !.processed = @ \cup cgm.batch]
                  [] outcome = "transient" ->
                      [cgm EXCEPT !.phase = "idle", !.batch = {}]
                  [] outcome = "error" ->
                      [cgm EXCEPT !.state = "errored", !.phase = "idle", !.batch = {}])

\* Mutant: offsets are committed as soon as the batch is fetched.
CgmCommittableOnFetch == cgm.phase \in { "fetched", "processed" }

\* Offsets are committed only after successful processing.
CgmCommittable == cgm.phase = "processed"

\* commit(offsets) of the batch in hand
CgmCommit ==
    /\ cgm.state \in { "running", "stopping" } /\ CgmCommittable
    /\ CgmStep([cgm EXCEPT !.phase = "idle", !.batch = {},
                           !.committed = CHOOSE o \in cgm.batch :
                                            \A q \in cgm.batch : q <= o])

\* stop(): callable from starting or running; the manager is stopping.
CgmStop ==
    /\ cgm.state \in { "starting", "running" }
    /\ CgmStep([cgm EXCEPT !.state = "stopping", !.stopCalled = TRUE])

\* stopping -> stopped, and stop() returns, once no batch is in flight.
CgmStopped ==
    /\ cgm.state = "stopping" /\ cgm.phase = "idle"
    /\ CgmStep([cgm EXCEPT !.state = "stopped", !.stopReturned = TRUE])

\* The process is killed and restarted: the group's committed offset survives.
CgmKill ==
    /\ cgm.restarts < MaxRestarts
    /\ CgmStep(CgmCreated(cgm.committed, cgm.processed, cgm.restarts + 1))

\* ------------------------------------------------------------- specification
\* The capability sets the full specification starts from: each kind of block
\* alone, and combinations in which blocks share the hub and the pool, exclude each
\* other, or run beside a session-recording consumer.
CapabilitySets ==
    { {},
      { "ingestion", "http" },
      { "processPluginJobs" },
      { "pluginScheduledTasks" },
      { "ingestion", "ingestionOverflow" },
      { "processAsyncHandlers", "processAsyncOnEventHandlers" },
      { "processAsyncHandlers", "processAsyncWebhooksHandlers" },
      { "sessionRecordingIngestion" },
      { "sessionRecordingBlobIngestion", "http" },
      { "ingestion", "sessionRecordingIngestion" } }

\* The state at the `try` of startPluginsServer (219), handlers registered.
InitWith(capabilitySets) ==
    /\ caps \in capabilitySets
    /\ hub = 0 /\ closeHub = 0 /\ piscina = 0
    /\ serverInstance = FALSE
    /\ pc = << FirstEnabled(1), "enter" >>
    /\ defined = {}
    /\ healthChecks = {} /\ httpHealthChecks = {}
    /\ scheduledJobs = {}
    /\ shuttingDown = FALSE
    /\ runs = << >>
    /\ stopped = {} /\ stoppedAgain = {} /\ stopRejected = {}
    /\ exited = FALSE /\ exitCode = 0
    /\ createHubCalls = 0 /\ makePiscinaCalls = 0
    /\ started = {}
    /\ thrown = "none"
    /\ rejections = {}
    /\ joins = {}
    /\ settled = {}
    /\ lastSignal = "none" /\ faults = 0 /\ events = 0
    /\ pools = {} /\ closedPools = {} /\ connectProducerCalls = 0
    /\ messages = [ ch \in BusChannels |-> 0 ]
    /\ handlers = << >> /\ pluginSchedule = 0
    /\ ended = {} /\ cgm = CgmCreated(0, {}, 0)
    /\ instance = {} /\ returned = {}

Init == InitWith(CapabilitySets)

InitAll == InitWith(SUBSET Capabilities)

\* The steps of startPluginsServer.
Startup ==
    \/ \E b \in HubBlocks : EnterBlock(b)
    \/ \E b \in HubBlocks : CreateHubSettled(b)
    \/ ConnectProducerSettled
    \/ \E b \in HubBlocks : MakePiscinaSettled(b)
    \/ StartGraphileWorkerSettled
    \/ StartScheduledTasksConsumerSettled
    \/ StartJobsConsumerSettled
    \/ \E b \in (HubBlocks \ { "jobs" }) \cup { "sessionRecordingIngestion" } :
            StartConsumerSettled(b)
    \/ EnterPubSub
    \/ \E statsd \in BOOLEAN : PubSubStartSettled(statsd)
    \/ EnterSessionRecording
    \/ \E s3 \in BOOLEAN : EnterSessionRecordingBlob(s3)
    \/ \E batchConsumer \in BOOLEAN : IngesterStartSettled(batchConsumer)
    \/ Finish

\* The continuations of the closeJobs runs.
Shutdown ==
    \/ \E i \in DOMAIN runs : \E rejected \in SUBSET (stopped \cap Range(StopHandles)) :
            AllSettled(i, rejected)
    \/ \E i \in DOMAIN runs : \E o \in { "resolved", "timeout", "rejected" } :
            TeardownSettled(i, o)
    \/ \E i \in DOMAIN runs : FlushDelayElapsed(i)
    \/ \E i \in DOMAIN runs : \E o \in { "resolved", "rejected" } : FlushSettled(i, o)
    \/ \E i \in DOMAIN runs : \E o \in { "resolved", "rejected" } : CloseHubSettled(i, o)

\* The external events the process handlers and the join handlers react to.
Environment ==
    \/ \E sig \in Signals : Signal(sig)
    \/ UncaughtException
    \/ \E error \in Errors : UnhandledRejection(error)
    \/ \E j \in joins : \E o \in { "resolved", "rejected" } : JoinSettled(j, o)

Next == Startup \/ Shutdown \/ Environment

\* Every behaviour of the orchestrator, from the capability sets above.
Spec == Init /\ [][Next]_vars

\* Fair scheduling: a continuation of startPluginsServer or of a closeJobs run that
\* is ready to run does run; the environment owes no event.
SpecFair == Spec /\ WF_vars(Startup) /\ WF_vars(Shutdown)

\* Startup, and the shutdown a startup failure causes, from every capability subset.
NextStartup == Startup \/ Shutdown

SpecStartup == InitAll /\ [][NextStartup]_vars

\* The capability sets the bus specification starts from: those that wire the bus,
\* with and without the scheduled tasks and the async-handler variants, and the
\* session-recording sets that do not.
BusCapabilitySets ==
    { { "processPluginJobs", "pluginScheduledTasks" },
      { "ingestion", "http" },
      { "processAsyncHandlers" },
      { "processAsyncOnEventHandlers" },
      { "processAsyncHandlers", "processAsyncWebhooksHandlers" },
      { "processAsyncWebhooksHandlers", "sessionRecordingIngestion" },
      { "sessionRecordingBlobIngestion" } }

InitBus == InitWith(BusCapabilitySets)

\* The messages on the bus and the continuations of their handlers.
Bus ==
    \/ \E ch \in BusChannels : \E valid \in BOOLEAN : Message(ch, valid)
    \/ \E i \in DOMAIN handlers : \E o \in { "resolved", "rejected" } :
            BroadcastSettled(i, o)

NextBus == Startup \/ Bus

\* Startup and the bus, from the capability sets above.
SpecBus == InitBus /\ [][NextBus]_vars

\* The ends of the consumers' loops, joined or not.
Streams ==
    \/ \E c \in ConsumerHandles : \E o \in { "resolved", "rejected" } : StreamEnded(c, o)
    \/ \E j \in joins : \E o \in { "resolved", "rejected" } : JoinSettled(j, o)

NextStreams == Startup \/ Shutdown \/ Streams

\* Startup, the consumers' loops ending, and the shutdowns these cause.
SpecStreams == Init /\ [][NextStreams]_vars

\* The capability sets the server specification starts from: between them every
\* block runs, with a Hub and without one.
ServerCapabilitySets ==
    { { "processPluginJobs", "pluginScheduledTasks", "sessionRecordingIngestion" },
      { "ingestion", "sessionRecordingBlobIngestion", "http" },
      { "sessionRecordingBlobIngestion", "http" } }

InitServer == InitWith(ServerCapabilitySets)

\* The scheduled jobs firing.
Timers == \E job \in { "reloadAllActions", "preflight" } : TimerFired(job)

\* Reload requests on the bus and the continuations of the handlers and callbacks.
ServerBus ==
    \/ Message("reload-plugins", TRUE)
    \/ \E i \in DOMAIN handlers : \E o \in { "resolved", "rejected" } :
            BroadcastSettled(i, o)

\* What shuts the running server down without a process.exit: stop(), or the end
\* of a joined consumer.
Triggers ==
    \/ Stop
    \/ \E j \in joins : \E o \in { "resolved", "rejected" } : JoinSettled(j, o)

NextServer == Startup \/ Shutdown \/ ServerBus \/ Timers \/ Triggers

\* The server as its caller sees it: startup, reload requests, timers, and the
\* shutdowns that a startup failure, stop() or a joined consumer's end starts.
SpecServer == InitServer /\ [][NextServer]_vars

InitConsumer == InitWith({ { "ingestion" } })

NextConsumer ==
    \/ CgmStart
    \/ CgmRunning
    \/ \E n \in 1 .. MaxBatch : CgmFetch(n)
    \/ \E o \in { "ok", "transient", "error" } : CgmProcess(o)
    \/ CgmCommit
    \/ CgmStop
    \/ CgmStopped
    \/ CgmKill

\* The fetch/process/commit loop of one Consumer Group Manager.
SpecConsumer == InitConsumer /\ [][NextConsumer]_vars

\* ---------------------------------------------------------------- properties
RunsBy(caller) == { i \in DOMAIN runs : runs[i].caller = caller }

\* The start functions that start a consumer of a stream.
ConsumerStartFns ==
    { "startScheduledTasksConsumer", "startJobsConsumer",
      "startAnalyticsEventsIngestionConsumer",
      "startAnalyticsEventsIngestionOverflowConsumer", "startAsyncHandlerConsumer",
      "startAsyncOnEventHandlerConsumer", "startAsyncWebhooksHandlerConsumer",
      "startSessionRecordingEventsConsumer", "SessionRecordingBlobIngester.start" }

\* The start functions that are passed the hub, and those that are passed the pool.
HubStartFns ==
    (ConsumerStartFns \cup { "startGraphileWorker" })
        \ { "startSessionRecordingEventsConsumer", "SessionRecordingBlobIngester.start" }
PoolStartFns == HubStartFns \ { "startJobsConsumer" }

\* C1: closeJobs is idempotent: over all its invocations in one process run, no
\* owned resource's stop/close routine (consumer stop, pubsub stop, job runner
\* stop, Worker Pool teardown, Hub close) is executed a second time.
C1_CloseJobsIdempotent == stoppedAgain = {}

\* C2: createHub is called at most once per run; the hub and closeHub variables
\* hold that one Hub from then on, and every block that started something was
\* passed that same Hub.
C2_HubCreatedAtMostOnce ==
    /\ createHubCalls <= 1
    /\ hub \in { 0, createHubCalls }
    /\ closeHub = hub
    /\ \A s \in started : s.fn \in HubStartFns => s.hub # 0 /\ s.hub = hub

\* C2 witness: three blocks have started their consumers on the one Hub.
C2_Witness ==
    /\ createHubCalls = 1
    /\ Cardinality({ s \in started : s.hub = 1 /\ s.fn \in ConsumerStartFns }) >= 3

\* C3: makePiscina is called at most once per run; the piscina variable, which
\* the blocks, the bus handlers and closeJobs all read, holds that one pool, and
\* every block that started something with a pool was passed that same pool.
C3_PoolCreatedAtMostOnce ==
    /\ makePiscinaCalls <= 1
    /\ piscina \in { 0, makePiscinaCalls }
    /\ \A s \in started : s.fn \in PoolStartFns => s.piscina # 0 /\ s.piscina = piscina
    /\ "stopPiscina" \in stopped => piscina = 1

\* C3 witness: three blocks started on the one pool, and shutdown has stopped it.
C3_Witness ==
    /\ makePiscinaCalls = 1
    /\ Cardinality({ s \in started : s.piscina = 1 /\ s.fn \in PoolStartFns }) >= 3
    /\ "stopPiscina" \in stopped

\* C4: within one run of closeJobs the steps happen in the order HTTP server
\* close, timers cancelled, metrics sampling stopped, stops requested and all
\* awaited, Worker Pool stopped (teardown, then flush), Hub closed, and no step
\* begins before the awaited step before it has completed.
C4_CloseJobsOrder ==
    LET ClaimedOrder ==
            << "httpServer.close", "cancelAllScheduledJobs", "stopEventLoopMetrics",
               "stop", "allSettled",
               "teardownPlugins", "teardownSettled",
               "flushKafkaMessages", "flushSettled",
               "closeHub", "closeHubSettled" >>
        Position(step) == CHOOSE k \in DOMAIN ClaimedOrder : ClaimedOrder[k] = step
        CompletionOf ==
            [ step \in { "stop", "teardownPlugins", "flushKafkaMessages", "closeHub" } |->
                ClaimedOrder[Position(step) + 1] ]
        InOrder(log) ==
            LET l == SelectSeq(log, LAMBDA x : x \in Range(ClaimedOrder))
            IN  /\ \A j, k \in DOMAIN l : j < k => Position(l[j]) < Position(l[k])
                /\ \A j, k \in DOMAIN l :
                      (j < k /\ l[j] \in DOMAIN CompletionOf)
                          => \E m \in j + 1 .. k : l[m] = CompletionOf[l[j]]
                /\ { "httpServer.close", "cancelAllScheduledJobs",
                     "stopEventLoopMetrics", "stop" } \subseteq Range(l)
    IN  \A i \in DOMAIN runs : InOrder(runs[i].log)

\* C4 witness: a run of closeJobs that went through every step, Hub close included.
C4_Witness ==
    \E i \in DOMAIN runs :
        /\ runs[i].pc = "done"
        /\ { "httpServer.close", "stop", "allSettled", "teardownSettled",
             "flushSettled", "closeHubSettled" } \subseteq Range(runs[i].log)
        /\ { "httpServer", "stopEventLoopMetrics", "pubSub" } \subseteq stopped

\* C5: a failure in the startup try block runs closeJobs and then terminates the
\* process with exit code 1: once startup has failed, the process does not exit
\* with another code, and the catch block's closeJobs does not end without the exit.
C5_StartupFailureExitsOne ==
    thrown # "none" =>
        /\ exited => exitCode = 1
        /\ pc # << "catch", "rejected" >>

\* C6: when the async/onEvent mutual-exclusion error is raised no consumer has
\* been started.
C6_ExclusionBeforeAnyConsumer ==
    thrown = "processAsyncOnEventHandlers" =>
        { s \in started : s.fn \in ConsumerStartFns } = {}

\* C7: processAsyncHandlers and processAsyncWebhooksHandlers are mutually
\* exclusive: with both set the webhooks consumer is never started, startup never
\* gets past the webhooks guard, and the failed startup shuts down and exits with
\* code 1: the process exits with no other code and the catch block's closeJobs
\* does not end without the exit.
C7_AsyncWebhooksExclusive ==
    { "processAsyncHandlers", "processAsyncWebhooksHandlers" } \subseteq caps =>
        /\ "webhooksHandlerConsumer" \notin defined
        /\ \A s \in started : s.fn # "startAsyncWebhooksHandlerConsumer"
        /\ pc[1] \notin { "pubSub", "sessionRecordingIngestion",
                          "sessionRecordingBlobIngestion", "finish" }
        /\ pc[1] = "processAsyncWebhooksHandlers" => pc[2] = "enter"
        /\ thrown # "none" => RunsBy("catch") # {} /\ shuttingDown
        /\ thrown = "processAsyncWebhooksHandlers" =>
              /\ exited => exitCode = 1
              /\ pc # << "catch", "rejected" >>

\* C8: an unhandled rejection is reported to Sentry unless it is a protocol
\* error with one of the ignorable codes 22, 25, 27, which is counted only.
C8_IgnorableNotReported ==
    \A r \in rejections :
        /\ r.counted = r.error.protocol
        /\ r.captured = ~(r.error.protocol /\ r.error.code \in { 22, 25, 27 })

\* C9: when the join of a session-recording consumer resolves, closeJobs runs.
C9_JoinResolvedShutsDown ==
    \A j \in { "joinSessionRecordingEventsConsumer", "joinSessionRecordingBlobConsumer" } :
        << j, "resolved" >> \in settled => shuttingDown /\ runs # << >>

\* C10: each of SIGINT, SIGTERM, SIGHUP starts a run of closeJobs; the process
\* exits with code 0 only when a run started by a signal has completed, its Hub
\* close step finished; and when such a run completes the process exits with 0.
C10_SignalExitAfterCloseJobs ==
    /\ lastSignal # "none" => RunsBy("beforeExit") # {} /\ shuttingDown
    /\ exited => exitCode \in { 0, 1 }
    /\ exited /\ exitCode = 0 =>
          \E i \in RunsBy("beforeExit") :
              /\ runs[i].pc = "done"
              /\ "closeHub" \in Range(runs[i].log)
                    => runs[i].log[Len(runs[i].log)] = "closeHubSettled"
    /\ \A i \in RunsBy("beforeExit") : runs[i].pc = "done" => exited /\ exitCode = 0

\* C10 witness: SIGHUP during operation; closeJobs ran through the Hub close and
\* the process then exited with code 0.
C10_Witness ==
    /\ lastSignal = "SIGHUP"
    /\ exited /\ exitCode = 0
    /\ \E i \in RunsBy("beforeExit") :
          /\ runs[i].pc = "done"
          /\ "closeHubSettled" \in Range(runs[i].log)

\* C11: an unhandled rejection that is not an ignorable protocol error is
\* reported to Sentry and triggers the shutdown: once the handler has dealt with
\* such an error, closeJobs has been called.
C11_UnhandledRejectionShutsDown ==
    \A r \in rejections :
        ~(r.error.protocol /\ r.error.code \in { 22, 25, 27 })
            => r.captured /\ shuttingDown /\ runs # << >>

\* C12: an uncaught fault outside a shutdown runs closeJobs to completion and then
\* exits with code 1: the run the fault started does not end without the exit, and
\* the process exits with no other code.
C12_UncaughtFaultExitsOne ==
    \A i \in RunsBy("uncaughtException") :
        /\ runs[i].pc # "rejected"
        /\ runs[i].pc = "done" => exited
        /\ exited => exitCode = 1

\* C13: shuttingDown, once set, is never cleared, and an uncaught fault delivered
\* while it is set starts no closeJobs run, invokes no stop routine and does not
\* call process.exit.
C13_ReentryGuard ==
    [][ /\ shuttingDown => shuttingDown'
        /\ (faults' # faults /\ shuttingDown) =>
              /\ runs' = runs
              /\ stopped' = stopped
              /\ exited' = exited /\ exitCode' = exitCode ]_vars

\* C13 witness: a fault was delivered during a shutdown another trigger had begun;
\* no run was started for it and the process has not exited.
C13_Witness ==
    /\ faults >= 1
    /\ shuttingDown /\ runs # << >>
    /\ RunsBy("uncaughtException") = {}
    /\ ~exited

\* C14: when a startup failure or an uncaught fault started the shutdown the exit
\* code is 1, in every interleaving; the exit code is 0 only when a termination
\* signal asked for the shutdown.
C14_ExitCodeByTrigger ==
    exited =>
        /\ exitCode \in { 0, 1 }
        /\ runs # << >> /\ runs[1].caller \in { "catch", "uncaughtException" }
              => exitCode = 1
        /\ exitCode = 0 => RunsBy("beforeExit") # {}

\* C15: by the time the process exits, every subsystem started in this run has had
\* its stop or close requested: each handle that is set, the Worker Pool, the Hub.
C15_EveryStartedSubsystemStopped ==
    exited =>
        /\ (defined \cap Range(StopHandles)) \subseteq stopped
        /\ piscina # 0 => "stopPiscina" \in stopped
        /\ hub # 0 => "closeHub" \in stopped

\* C16: a call of closeJobs requests the stop of every handle that is set, and
\* when the requested stops have settled, some or all of them by rejecting, the
\* run goes on to stop the Worker Pool if there is one, else to close the Hub.
C16_StopFailuresDoNotBlock ==
    [][ /\ Len(runs') > Len(runs) => (defined \cap Range(StopHandles)) \subseteq stopped'
        /\ \A i \in DOMAIN runs :
              (runs[i].pc = "allSettled" /\ runs'[i].pc # "allSettled") =>
                  /\ runs'[i].pc \in { "teardownPlugins", "closeHub", "done" }
                  /\ piscina # 0 =>
                        runs'[i].pc = "teardownPlugins" /\ "stopPiscina" \in stopped'
                  /\ (piscina = 0 /\ closeHub # 0) =>
                        runs'[i].pc = "closeHub" /\ "closeHub" \in stopped' ]_vars

\* C16 witness: two or more stops were requested and every one of them rejected;
\* the run has gone on to the teardown broadcast of the Worker Pool.
C16_Witness ==
    /\ Cardinality(stopRejected) >= 2
    /\ stopRejected = stopped \cap Range(StopHandles)
    /\ "stopPiscina" \in stopped
    /\ \E i \in DOMAIN runs :
          /\ runs[i].pc = "teardownPlugins"
          /\ runs[i].log[Len(runs[i].log)] = "teardownPlugins"

\* C17: stopPiscina is bounded by its timeouts: no closeJobs run is still waiting
\* in stopPiscina once the delay of the step it is at has elapsed, so a broadcast
\* that never completes does not hold up the Hub close and the exit.
C17_PoolStopBounded ==
    \A i \in DOMAIN runs : runs[i].pc # "flushPending"

\* C18: startup runs the enabled capability blocks in one fixed order: jobs and
\* scheduled tasks, ingestion, overflow ingestion, async handlers, on-event
\* handlers, webhooks handlers, broadcast-bus wiring, session-recording events,
\* session-recording blob, HTTP server.  A block that is not enabled never begins,
\* and when a block has been entered every enabled block before it has finished.
C18_FixedBlockOrder ==
    LET Order ==
            << "jobs", "ingestion", "ingestionOverflow", "processAsyncHandlers",
               "processAsyncOnEventHandlers", "processAsyncWebhooksHandlers", "pubSub",
               "sessionRecordingIngestion", "sessionRecordingBlobIngestion", "finish" >>
        fns == { s.fn : s \in started }
        StartFnsOf(b) ==
            CASE b = "jobs" ->
                    { "startGraphileWorker" }
                        \cup (IF "pluginScheduledTasks" \in caps
                              THEN { "startScheduledTasksConsumer" } ELSE {})
                        \cup (IF "processPluginJobs" \in caps
                              THEN { "startJobsConsumer" } ELSE {})
              [] b = "ingestion" -> { "startAnalyticsEventsIngestionConsumer" }
              [] b = "ingestionOverflow" ->
                    { "startAnalyticsEventsIngestionOverflowConsumer" }
              [] b = "processAsyncHandlers" -> { "startAsyncHandlerConsumer" }
              [] b = "processAsyncOnEventHandlers" ->
                    { "startAsyncOnEventHandlerConsumer" }
              [] b = "processAsyncWebhooksHandlers" ->
                    { "startAsyncWebhooksHandlerConsumer" }
              [] b = "sessionRecordingIngestion" ->
                    { "startSessionRecordingEventsConsumer" }
              [] b = "sessionRecordingBlobIngestion" ->
                    { "SessionRecordingBlobIngester.start" }
              [] OTHER -> {}
        EnabledByFlags(b) ==
            CASE b = "jobs" ->
                    "processPluginJobs" \in caps \/ "pluginScheduledTasks" \in caps
              [] b = "pubSub" -> createHubCalls > 0
              [] b = "finish" -> "http" \in caps
              [] OTHER -> b \in caps
        Entered(b) ==
            \/ pc[1] = b /\ (b = "finish" => "httpServer" \in defined)
            \/ StartFnsOf(b) \cap fns # {}
            \/ b = "pubSub" /\ "pubSub" \in defined
            \/ b = "finish" /\ "httpServer" \in defined
        Finished(b) ==
            IF b = "pubSub"
            THEN "pubSub" \in defined /\ pc # << "pubSub", "pubSubStart" >>
            ELSE StartFnsOf(b) \subseteq fns
    IN  \A j \in DOMAIN Order :
            /\ Entered(Order[j]) => EnabledByFlags(Order[j])
            /\ \A k \in DOMAIN Order :
                  (j < k /\ Entered(Order[k]) /\ EnabledByFlags(Order[j])
                     /\ (Order[j] = "pubSub" => hub # 0))
                      => Finished(Order[j])

\* C18 witness: a startup that went through the ingestion, overflow, bus,
\* session-recording and HTTP blocks and returned.
C18_Witness ==
    /\ pc = << "finish", "returned" >>
    /\ { "ingestion", "ingestionOverflow", "sessionRecordingIngestion",
         "sessionRecordingBlobIngestion", "http" } \subseteq caps
    /\ { "pubSub", "httpServer", "analyticsEventsIngestionOverflowConsumer",
         "stopSessionRecordingBlobConsumer" } \subseteq defined

\* C19: every block that starts a consumer has ensured the Hub and the Worker Pool
\* before the start call, and registers a health predicate after it: each started
\* consumer was started with a Hub and a pool in place, and after a successful
\* startup the registry has an entry for each started consumer.
C19_ConsumerBlocksRegisterHealth ==
    LET consumers == { s \in started : s.fn \in ConsumerStartFns }
    IN  /\ \A s \in consumers : s.hub # 0 /\ s.piscina # 0
        /\ pc = << "finish", "returned" >>
              => Cardinality(healthChecks) >= Cardinality(consumers)

\* C20: with exactly the capabilities {ingestion, http}, a startup that returns
\* has created the Hub and the pool once each, started exactly one consumer and
\* handed the HTTP server a registry with the one entry analytics-ingestion; a
\* SIGTERM to the started server (its closeJobs closes the HTTP server) ends in
\* process.exit(0): the run neither rejects nor stays waiting in stopPiscina, and
\* the exit code is 0.
C20_IngestionHttpScenario ==
    caps = { "ingestion", "http" } =>
        /\ pc = << "finish", "returned" >> =>
              /\ createHubCalls = 1 /\ makePiscinaCalls = 1
              /\ { s.fn : s \in { t \in started : t.fn \in ConsumerStartFns } }
                    = { "startAnalyticsEventsIngestionConsumer" }
              /\ "httpServer" \in defined
              /\ httpHealthChecks = { "analytics-ingestion" }
        /\ (lastSignal = "SIGTERM" /\ "httpServer" \in stopped /\ faults = 0) =>
              /\ RunsBy("beforeExit") # {}
              /\ exited => exitCode = 0
              /\ \A i \in RunsBy("beforeExit") :
                    /\ runs[i].pc \notin { "rejected", "flushPending" }
                    /\ runs[i].pc = "done" => exited

\* C21: a reload-plugins handler acts in order: it awaits the reloadPlugins
\* broadcast; then, only if pluginScheduledTasks is enabled, it awaits the
\* reloadSchedule broadcast, then the schedule loaded from the pool, and assigns
\* that value to hub.pluginSchedule; without the capability it stops after the
\* first broadcast and hub.pluginSchedule keeps the value createHub gave it.
C21_ReloadPluginsInOrder ==
    LET Order == << "reloadPlugins", "reloadSchedule", "loadPluginSchedule",
                    "hub.pluginSchedule" >>
        InOrder(log) ==
            Len(log) <= Len(Order) /\ \A k \in 1 .. Len(log) : log[k] = Order[k]
        Enabled21 == "pluginScheduledTasks" \in caps
    IN  /\ \A i \in DOMAIN handlers :
              handlers[i].channel = "reload-plugins" =>
                  /\ InOrder(handlers[i].log)
                  /\ handlers[i].pc \notin { "done", "rejected" } =>
                        handlers[i].pc = handlers[i].log[Len(handlers[i].log)]
                  /\ handlers[i].pc = "done" =>
                        handlers[i].log = IF Enabled21 THEN Order ELSE << "reloadPlugins" >>
                  /\ ~Enabled21 => Len(handlers[i].log) <= 1
        /\ ~Enabled21 => pluginSchedule = 0
        /\ pluginSchedule # 0 =>
              /\ handlers[pluginSchedule].channel = "reload-plugins"
              /\ handlers[pluginSchedule].log = Order

\* C21 witness: with the capability, a handler has gone through all four steps and
\* the schedule map holds the value it loaded.
C21_Witness ==
    /\ "pluginScheduledTasks" \in caps
    /\ \E i \in DOMAIN handlers :
          /\ handlers[i].channel = "reload-plugins" /\ handlers[i].pc = "done"
          /\ Len(handlers[i].log) = 4
          /\ pluginSchedule = i

\* C22 (as claimed): when three reload-plugins messages have arrived and none of
\* their handlers has failed, the reloadPlugins broadcasts complete in arrival
\* order: a later handler's broadcast has completed only if every earlier one has.
C22_CompleteInArrivalOrder ==
    LET Reloads == { i \in DOMAIN handlers : handlers[i].channel = "reload-plugins" }
        Completed(i) == Len(handlers[i].log) > 1 \/ handlers[i].pc = "done"
    IN  ( /\ messages["reload-plugins"] = 3
          /\ \A i \in Reloads : handlers[i].pc # "rejected" ) =>
            \A i, j \in Reloads : (i < j /\ Completed(j)) => Completed(i)

\* C22 (amended): every reload-plugins message invokes the handler once, and each
\* invocation issues a reloadPlugins broadcast of its own as soon as it is invoked:
\* none is dropped or merged into a pending one.
C22_EachMessageOwnBroadcast ==
    LET Reloads == { i \in DOMAIN handlers : handlers[i].channel = "reload-plugins" }
    IN  /\ Cardinality(Reloads) = messages["reload-plugins"]
        /\ \A i \in Reloads :
              /\ Len(handlers[i].log) >= 1
              /\ handlers[i].log[1] = "reloadPlugins"

\* C22 witness: three reload-plugins messages arrived while the first broadcast was
\* pending, and a later broadcast has completed before it.
C22_Witness ==
    /\ messages["reload-plugins"] = 3 /\ Len(handlers) = 3
    /\ handlers[1].pc = "reloadPlugins"
    /\ handlers[2].pc = "reloadPlugins"
    /\ handlers[3].pc = "done"

C24_HubDestroyedOnce ==
    /\ "closeHub" \notin stoppedAgain
    /\ \A p \in closedPools :
          p.kind = "redis" => (p.owner = "hub") = (hub # 0)
    /\ \A p \in closedPools : p.owner = "hub" => "closeHub" \in stopped

\* C25: for every capability subset at most one relational-store pool is created
\* in a run, and when the Hub exists the session-recording blocks create no pool
\* of their own: every pool is the Hub's.
C25_PoolsCreatedOnce ==
    /\ Cardinality({ p \in pools : p.kind = "postgres" }) <= 1
    /\ hub # 0 => \A p \in pools : p.owner = "hub"

\* C26: no pool is leaked: when a run of closeJobs has completed, every
\* relational-store pool and cache pool created so far, by createHub or by a
\* session-recording block, has been closed.
C26_PoolsClosedAtShutdown ==
    \A i \in DOMAIN runs : runs[i].pc = "done" => pools \subseteq closedPools

\* C27: the end of a consumer's loop other than a session-recording one is
\* locally fatal only: it never starts closeJobs or ends the process, so while no
\* startup failure and no session-recording join has occurred nothing is shut
\* down; a closeJobs run started by a join comes from a session-recording join.
C27_OnlySessionRecordingJoined ==
    /\ joins \subseteq { "joinSessionRecordingEventsConsumer",
                         "joinSessionRecordingBlobConsumer" }
    /\ \A i \in RunsBy("join") :
          \E j \in { "joinSessionRecordingEventsConsumer",
                     "joinSessionRecordingBlobConsumer" } : << j, "rejected" >> \in settled
    /\ (thrown = "none" /\ settled = {}) =>
          /\ runs = << >> /\ ~shuttingDown /\ ~exited
          /\ stopped = {}

\* C27 witness: after a successful startup the analytics consumer's loop has ended
\* with an error, and everything else is still running.
C27_Witness ==
    /\ pc = << "finish", "returned" >>
    /\ << "analyticsEventsIngestionConsumer", "rejected" >> \in ended
    /\ runs = << >> /\ ~exited

\* C28: the health registry is appended to only during startup: once the HTTP
\* server has been created with it, or startup has returned or failed, no step
\* adds, replaces or removes an entry, so the registry the server reads is the
\* one it was created with, also during shutdown.
C28_RegistryReadOnlyAfterStartup ==
    [][ /\ ("httpServer" \in defined \/ (pc[1] \in { "finish", "catch" } /\ pc[2] # "enter"))
            => healthChecks' = healthChecks
        /\ healthChecks \subseteq healthChecks'
        /\ "httpServer" \in defined' => httpHealthChecks' = healthChecks' ]_vars

\* C28 witness: the HTTP server was created with the registry holding the blob
\* consumer's check, and a run of closeJobs has since closed it and completed.
C28_Witness ==
    /\ "httpServer" \in defined /\ "httpServer" \in stopped
    /\ httpHealthChecks = { "session-recordings-blob" } /\ httpHealthChecks = healthChecks
    /\ \E i \in DOMAIN runs : runs[i].pc = "done"

\* C29: graphileWorker.connectProducer() is called at most once per run, and
\* exactly once, to completion, before the poller is started: startup is past the
\* await of that call whenever it is at or beyond startGraphileWorker in the jobs
\* block; if the call fails, neither the poller nor the jobs and scheduled-tasks
\* consumers are ever started.
C29_MigrationBeforePoller ==
    LET JobsFns == { "startGraphileWorker", "startScheduledTasksConsumer",
                     "startJobsConsumer" }
        Poller == { s \in started : s.fn \in JobsFns }
    IN  /\ connectProducerCalls <= 1
        /\ (pc[1] = "jobs" /\ pc[2] \in JobsFns) => connectProducerCalls = 1
        /\ Poller # {} =>
              /\ connectProducerCalls = 1
              /\ pc # << "jobs", "connectProducer" >>
              /\ thrown # "connectProducer"
        /\ thrown = "connectProducer" => Poller = {}

\* C29 witness: the migration was run once and the poller and both consumers of
\* the jobs block have been started after it.
C29_Witness ==
    /\ connectProducerCalls = 1
    /\ { s.fn : s \in started } \cap
          { "startGraphileWorker", "startScheduledTasksConsumer", "startJobsConsumer" }
            = { "startGraphileWorker", "startScheduledTasksConsumer", "startJobsConsumer" }

\* C30: the reload-action and drop-action handlers run only when an async-handler
\* capability variant is enabled, while every message on the plugin-reload and
\* feature-cache-reset channels runs its handler whenever the bus is wired; with
\* no variant enabled a reload-action or drop-action message starts no handler
\* and so no broadcast.
C30_ActionChannelsOnlyForAsync ==
    LET Variant ==
            caps \cap { "processAsyncHandlers", "processAsyncOnEventHandlers",
                        "processAsyncWebhooksHandlers" } # {}
        On(ch) == { i \in DOMAIN handlers : handlers[i].channel = ch }
    IN  /\ \A ch \in { "reload-action", "drop-action" } :
              /\ On(ch) # {} => Variant
              /\ Cardinality(On(ch)) \in { 0, messages[ch] }
        /\ \A ch \in { "reload-plugins", "reset-available-features-cache" } :
              Cardinality(On(ch)) = messages[ch]
        /\ ~Variant =>
              \A i \in DOMAIN handlers : \A k \in DOMAIN handlers[i].log :
                  handlers[i].log[k] \notin { "reloadAction", "dropAction" }

\* C30 witness: with no async-handler variant enabled, a reload-action, a
\* drop-action and a reload-plugins message have been delivered, and only the last
\* started a handler.
C30_Witness ==
    /\ caps \cap { "processAsyncHandlers", "processAsyncOnEventHandlers",
                   "processAsyncWebhooksHandlers" } = {}
    /\ messages["reload-action"] = 1 /\ messages["drop-action"] = 1
    /\ messages["reload-plugins"] = 1
    /\ Len(handlers) = 1 /\ handlers[1].channel = "reload-plugins"

\* C31: in a shutdown with a Hub, closeHub is called whatever the Worker Pool's
\* broadcasts do: a run of closeJobs that stopped the pool and has ended, by
\* completing or by rejecting, has called closeHub.
C31_HubCloseAlwaysCalled ==
    \A i \in DOMAIN runs :
        ( /\ runs[i].pc \in { "done", "rejected" }
          /\ "teardownPlugins" \in Range(runs[i].log) ) =>
            "closeHub" \in Range(runs[i].log)

\* C32: after a termination signal the process eventually exits, under fair
\* scheduling, whatever the outcomes of the stops, the broadcasts and the Hub close.
C32_SignalLeadsToExit == (lastSignal # "none") ~> exited

\* The tasks broadcast to the Worker Pool by closeJobs, the bus handlers and the
\* reload-all-actions job.
PoolTasks ==
    { "teardownPlugins", "flushKafkaMessages", "reloadPlugins", "reloadSchedule",
      "reloadAllActions", "reloadAction", "dropAction", "resetAvailableFeaturesCache" }

IsPoolTask(e) == e \in PoolTasks

\* The broadcasts issued so far, by each handler or callback and by each run of
\* closeJobs.
Broadcasts ==
    << [ i \in DOMAIN handlers |-> SelectSeq(handlers[i].log, IsPoolTask) ],
       [ i \in DOMAIN runs |-> SelectSeq(runs[i].log, IsPoolTask) ] >>

\* await closeHub() has resolved in some run of closeJobs.
HubClosed == \E i \in DOMAIN runs : "closeHubSettled" \in Range(runs[i].log)

\* C33: no Worker Pool broadcast is issued after the Hub has been closed: once
\* closeHub has resolved, no step of a handler, a timer callback or closeJobs issues
\* another broadcast.
C33_NoBroadcastAfterHubClosed == [][HubClosed => Broadcasts' = Broadcasts]_vars

\* The steps at which startPluginsServer awaits a start call it has just issued.
StartSteps ==
    { "startGraphileWorker", "startScheduledTasksConsumer", "startJobsConsumer",
      "startConsumer", "pubSubStart", "ingesterStart" }

\* C34: once closeJobs has cancelled the scheduled jobs, nothing is scheduled and
\* nothing fires, and startup issues no start call of a consumer or of the pubsub
\* subscription and creates no HTTP server, even when the trigger arrived during
\* startup.
C34_NothingStartsAfterShutdown ==
    [][shuttingDown =>
        /\ scheduledJobs' \subseteq scheduledJobs
        /\ \A i \in DOMAIN handlers' :
               handlers'[i].channel \in { "reloadAllActions", "preflight" }
                   => i \in DOMAIN handlers
        /\ (pc' # pc) => (pc'[2] \notin StartSteps)
        /\ ("httpServer" \in defined') => ("httpServer" \in defined)]_vars

\* Run i of closeJobs issues the flush broadcast in this step.
FlushIssued(i) ==
    /\ "flushKafkaMessages" \in Range(runs'[i].log)
    /\ i \in DOMAIN runs => "flushKafkaMessages" \notin Range(runs[i].log)

\* C35: in stopPiscina the flush broadcast is issued only once the race between the
\* teardown broadcast and its 5-second delay has settled: the step that issues it
\* is the continuation of a run that was awaiting that race, so within one
\* stopPiscina the flush is never issued while the teardown is still awaited.
C35_FlushAfterTeardownRace ==
    [][\A i \in DOMAIN runs' :
          FlushIssued(i) =>
              /\ i \in DOMAIN runs
              /\ runs[i].pc = "teardownPlugins"
              /\ runs'[i].pc = "flushKafkaMessages"
              /\ "teardownSettled" \in Range(runs'[i].log)]_vars

C35_Witness ==
    \E i \in DOMAIN runs :
        /\ runs[i].pc \in { "flushKafkaMessages", "flushPending" }
        /\ runs[i].caller = "catch"

\* C36: at every block boundary of startup the Hub is set if and only if the
\* Worker Pool is, so once the bus is wired the pool is there: no handler of a
\* subscribed channel and no callback of a scheduled job skips its broadcast.
C36_HubIffPool ==
    /\ (pc[2] = "enter") => (hub # 0 <=> piscina # 0)
    /\ ("pubSub" \in defined) =>
           /\ piscina # 0
           /\ \A ch \in SubscribedChannels : HandlerStart(ch, TRUE).log # << >>
    /\ \A job \in scheduledJobs : TimerStart(job).log # << >>

C36_Witness ==
    /\ pc = << "finish", "enter" >>
    /\ hub # 0 /\ piscina # 0
    /\ "pubSub" \in defined
    /\ scheduledJobs = { "reloadAllActions", "preflight" }

\* The capabilities whose blocks need no Hub.
HublessCapabilities == { "sessionRecordingIngestion", "sessionRecordingBlobIngestion", "http" }

\* With only hubless capabilities no Hub and no Worker Pool is ever created, and
\* neither the bus, nor a scheduled job, nor the metrics sampling is set up.
NothingForHubless ==
    (caps \subseteq HublessCapabilities) =>
        /\ createHubCalls = 0 /\ makePiscinaCalls = 0 /\ hub = 0 /\ piscina = 0
        /\ "pubSub" \notin defined /\ "stopEventLoopMetrics" \notin defined
        /\ scheduledJobs = {}

\* C37 as stated: when startup has passed its blocks, the bus, the two scheduled
\* jobs and the event-loop metrics sampling are each set up if and only if a Hub
\* was created; with only hubless capabilities none is, and no Hub or pool exists.
C37_AllSetUpIffHub ==
    /\ (pc[1] = "finish") =>
           /\ (hub # 0) <=> ("pubSub" \in defined)
           /\ (hub # 0) <=> (scheduledJobs = { "reloadAllActions", "preflight" })
           /\ (hub # 0) <=> ("stopEventLoopMetrics" \in defined)
    /\ NothingForHubless

\* C37 (amended): when startup has passed its blocks, the bus and the two scheduled
\* jobs are set up if and only if a Hub was created; the metrics sampling is set up
\* only with a Hub and the bus, and not with every Hub; with only hubless
\* capabilities none is set up, and no Hub or pool exists.
C37_BusAndJobsIffHub ==
    /\ (pc[1] = "finish") =>
           /\ (hub # 0) <=> ("pubSub" \in defined)
           /\ (hub # 0) <=> (scheduledJobs = { "reloadAllActions", "preflight" })
    /\ ("pubSub" \in defined) => (hub # 0)
    /\ ("stopEventLoopMetrics" \in defined) => (hub # 0 /\ "pubSub" \in defined)
    /\ (scheduledJobs # {}) => (hub # 0 /\ "pubSub" \in defined)
    /\ NothingForHubless

C37_Witness ==
    /\ pc = << "finish", "returned" >>
    /\ hub # 0 /\ "pubSub" \in defined
    /\ scheduledJobs = { "reloadAllActions", "preflight" }
    /\ "stopEventLoopMetrics" \notin defined

\* C38: a successful startup returns an object whose stop is closeJobs, with hub,
\* piscina and queue beside it when a Hub was created and stop alone otherwise; a
\* call of stop ends by returning, after the whole shutdown sequence (the
\* synchronous stops, the concurrent stops, the Worker Pool stop when there is a
\* pool, the Hub close when there is a Hub), and the process has not exited.
C38_StopRunsFullShutdown ==
    /\ (pc = << "finish", "returned" >>) =>
           returned = IF hub # 0 THEN { "hub", "piscina", "queue", "stop" } ELSE { "stop" }
    /\ \A i \in RunsBy("stop") :
           /\ runs[i].pc # "rejected"
           /\ (runs[i].pc = "done") =>
                  /\ ~exited
                  /\ { "cancelAllScheduledJobs", "allSettled" } \subseteq Range(runs[i].log)
                  /\ (piscina # 0) => { "teardownSettled", "flushSettled" }
                                          \subseteq Range(runs[i].log)
                  /\ (closeHub # 0) => "closeHubSettled" \in Range(runs[i].log)

====
